---- MODULE Spec2Model ----
(***************************************************************************)
(* Model of ejdb.js: the JavaScript layer between a caller and the native  *)
(* EJDB handle `_impl`.  The state is the JavaScript heap the caller and   *)
(* the layer share (query objects, hints, OR arrays, documents), the call  *)
(* in progress, what was dispatched to the engine, what the engine         *)
(* answered, and the trace of what the engine callback did (cursor calls,  *)
(* handler invocations, exceptions).                                       *)
(***************************************************************************)
EXTENDS Integers, Sequences, FiniteSets, TLC

VARIABLES heap, heap0, pc, call, sent, answer, events

vars == <<heap, heap0, pc, call, sent, answer, events>>

(* ------------------------------ bounds --------------------------------- *)

\* Largest number of actual arguments a caller passes (arguments.length).
MaxArgc == 5

\* Identifiers the engine may return from save are oid1 .. oidMaxOid.
MaxOid == 2

\* Counts the engine may report are 0 .. MaxCount.
MaxCount == 1

(* --------------------------- JavaScript values ------------------------- *)

\* A value: its type tag t, a string payload s (the content of a string, the
\* heap address of an object or array, the name of a function) and a number
\* payload n.
V(t, s, n) == [t |-> t, s |-> s, n |-> n]

undefined == V("undefined", "", 0)
null == V("null", "", 0)
Num(n) == V("number", "", n)
Str(s) == V("string", s, 0)
Bool(b) == V("boolean", "", IF b THEN 1 ELSE 0)
Fn(name) == V("function", name, 0)
Obj(addr) == V("object", addr, 0)
Arr(addr) == V("array", addr, 0)
Oid(i) == V("string", "oid", i)

\* The caller's terminal handler, the engine's error, cursor and log.
Handler == Fn("cb")
Err == V("object", "err", 0)
Cursor == V("cursor", "cursor", 0)
Log == Str("log")

\* ToBoolean
Truthy(v) ==
    CASE v.t \in {"undefined", "null"} -> FALSE
      [] v.t = "number" -> v.n # 0
      [] v.t = "boolean" -> v.n # 0
      [] v.t = "string" -> ~(v.s = "" /\ v.n = 0)
      [] OTHER -> TRUE

\* typeof v === "object" / "function" / "string"
TypeofObject(v) == v.t \in {"null", "object", "array", "cursor"}
TypeofFunction(v) == v.t = "function"
TypeofString(v) == v.t = "string"

\* v.constructor === Array, for a truthy v
ConstructorIsArray(v) == v.t = "array"

\* v is a reference into the heap
IsRef(v) == v.t \in {"object", "array"}

(* -------------------------------- heap --------------------------------- *)

\* A heap cell: the properties this layer reads or writes ($max, $onlycount,
\* _id; undefined when absent) and, for an array, its elements.
Cell(max, onlycount, id, elems) ==
    [max |-> max, onlycount |-> onlycount, id |-> id, elems |-> elems]

EmptyCell == Cell(undefined, undefined, undefined, <<>>)

\* Cells the layer (or the engine) allocates during a call: `{}` for hints
\* and qobj, `[]` for orarr, `[jsarr]` in save, `{}` for opts, the engine's
\* identifier array and the object a cursor yields.
ScratchAddrs == {"newHints", "newQobj", "newOrarr", "newJsarr", "newOpts",
                 "oids", "record"}

\* Objects the caller owns: a predicate P, hints H0 = {} and
\* H1 = {$onlycount: true, $max: 2}, arrays A0 = [] and A1 = [P], opts,
\* documents D1 (no _id) and D2 (_id = oid1), document arrays, the engine's
\* error object and the literals `{}` and `[]`.
DocAddrs == {"D1", "D2"}

CallerAddrs == {"P", "H0", "H1", "A0", "A1", "opts", "D1", "D2",
                "J1", "J2", "J3", "J4", "err", "litObj", "litArr"}

Addrs == CallerAddrs \cup ScratchAddrs

InitCell(a) ==
    CASE a = "H1" -> Cell(Num(2), Bool(TRUE), undefined, <<>>)
      [] a = "A1" -> Cell(undefined, undefined, undefined, <<Obj("P")>>)
      [] a = "D2" -> Cell(undefined, undefined, Oid(1), <<>>)
      [] a = "J1" -> Cell(undefined, undefined, undefined, <<Obj("D1")>>)
      [] a = "J2" -> Cell(undefined, undefined, undefined, <<Obj("D1"), Obj("D2")>>)
      [] a = "J3" -> Cell(undefined, undefined, undefined, <<Obj("D1"), Obj("D1")>>)
      [] a = "J4" -> Cell(undefined, undefined, undefined, <<null, Obj("D2")>>)
      [] OTHER -> EmptyCell

InitHeap == [a \in Addrs |-> InitCell(a)]

\* The heap a call starts from: the cells it will allocate are fresh.
Fresh(h) == [a \in Addrs |-> IF a \in ScratchAddrs THEN EmptyCell ELSE h[a]]

\* Array.prototype.concat(x, y): an array argument contributes its elements,
\* any other value contributes itself.
Spread(v, h) == IF v.t = "array" THEN h[v.s].elems ELSE <<v>>

Concat(arr, x, y, h) == arr \o Spread(x, h) \o Spread(y, h)

(* --------------------------- call outcomes ----------------------------- *)

\* What a call did before returning: the exception it threw (if any), the
\* request it handed to the engine (if any) and the heap it left.
Throw(msg, h) == [throw |-> msg, sent |-> <<>>, h |-> h]

\* A request to `_impl`: the engine function, its arguments, and the
\* callback given to the engine; `inner` is the caller's handler a wrapper
\* closure captured.
Request(fn, cname, req, mode, flags, cb, inner) ==
    [fn |-> fn, cname |-> cname, req |-> req, mode |-> mode, flags |-> flags,
     cb |-> cb, inner |-> inner]

Dispatch(r, h) == [throw |-> "", sent |-> <<r>>, h |-> h]

NoDispatch(h) == [throw |-> "", sent |-> <<>>, h |-> h]

(* ------------------------------- find ---------------------------------- *)

\* find with the 4-argument branch taking its 3rd argument for the hints
\* whatever its type.
find_NoArrayTest(argc, cname, qobj, orarr, hints, cb, h) ==
    LET a == IF argc = 4
             THEN [cb |-> hints, orarr |-> Arr("newOrarr"), hints |-> orarr]
             ELSE IF argc = 3
                  THEN [cb |-> orarr, orarr |-> Arr("newOrarr"), hints |-> Obj("newHints")]
                  ELSE [cb |-> cb, orarr |-> orarr, hints |-> hints]
    IN  IF ~TypeofFunction(a.cb)
        THEN Throw("Callback 'cb' argument must be specified", h)
        ELSE IF ~TypeofString(cname)
        THEN Throw("Collection name 'cname' argument must be specified", h)
        ELSE LET hints2 == IF ~Truthy(a.hints) \/ ~TypeofObject(a.hints)
                           THEN Obj("newHints") ELSE a.hints
                 qobj2 == IF ~Truthy(qobj) \/ ~TypeofObject(qobj)
                          THEN Obj("newQobj") ELSE qobj
             IN  Dispatch(Request("query", cname,
                                  Concat(<<qobj2>>, a.orarr, hints2, h),
                                  IF Truthy(h[hints2.s].onlycount)
                                  THEN "JBQRYCOUNT" ELSE "0",
                                  {}, a.cb, a.cb), h)

find(argc, cname, qobj, orarr, hints, cb, h) ==
    LET a == IF argc = 4
             THEN IF Truthy(orarr) /\ ConstructorIsArray(orarr)
                  THEN [cb |-> hints, orarr |-> orarr, hints |-> Obj("newHints")]
                  ELSE [cb |-> hints, orarr |-> Arr("newOrarr"), hints |-> orarr]
             ELSE IF argc = 3
                  THEN [cb |-> orarr, orarr |-> Arr("newOrarr"), hints |-> Obj("newHints")]
                  ELSE [cb |-> cb, orarr |-> orarr, hints |-> hints]
    IN  IF ~TypeofFunction(a.cb)
        THEN Throw("Callback 'cb' argument must be specified", h)
        ELSE IF ~TypeofString(cname)
        THEN Throw("Collection name 'cname' argument must be specified", h)
        ELSE LET hints2 == IF ~Truthy(a.hints) \/ ~TypeofObject(a.hints)
                           THEN Obj("newHints") ELSE a.hints
                 qobj2 == IF ~Truthy(qobj) \/ ~TypeofObject(qobj)
                          THEN Obj("newQobj") ELSE qobj
             IN  Dispatch(Request("query", cname,
                                  Concat(<<qobj2>>, a.orarr, hints2, h),
                                  IF Truthy(h[hints2.s].onlycount)
                                  THEN "JBQRYCOUNT" ELSE "0",
                                  {}, a.cb, a.cb), h)

(* ------------------------ calling a function --------------------------- *)

Ev(k, a) == [k |-> k, a |-> a]

\* f(args): the handler is entered with args and may throw; calling a value
\* that is no function raises a TypeError.  The trace ends with "threw" or
\* "TypeError" exactly when the call raised.
Invoke(f, args, throws) ==
    IF TypeofFunction(f)
    THEN <<Ev("cb", args)>> \o (IF throws THEN <<Ev("threw", <<>>)>> ELSE <<>>)
    ELSE <<Ev("TypeError", <<f>>)>>

(* ------------------------------ findOne -------------------------------- *)

\* findOne writing $max = 1 into a copy of the hints instead of the caller's
\* object.
findOne_CopyHints(argc, cname, qobj, orarr, hints, cb, h) ==
    LET a == IF argc = 4
             THEN IF Truthy(orarr) /\ ConstructorIsArray(orarr)
                  THEN [cb |-> hints, orarr |-> orarr, hints |-> Obj("newHints")]
                  ELSE [cb |-> hints, orarr |-> Arr("newOrarr"), hints |-> orarr]
             ELSE IF argc = 3
                  THEN [cb |-> orarr, orarr |-> Arr("newOrarr"), hints |-> Obj("newHints")]
                  ELSE [cb |-> cb, orarr |-> orarr, hints |-> hints]
    IN  IF ~TypeofFunction(a.cb)
        THEN Throw("Callback 'cb' argument must be specified", h)
        ELSE IF ~TypeofString(cname)
        THEN Throw("Collection name 'cname' argument must be specified", h)
        ELSE LET given == Truthy(a.hints) /\ TypeofObject(a.hints)
                 hints2 == Obj("newHints")
                 qobj2 == IF ~Truthy(qobj) \/ ~TypeofObject(qobj)
                          THEN Obj("newQobj") ELSE qobj
                 h2 == [h EXCEPT !["newHints"] =
                           [(IF given THEN h[a.hints.s] ELSE EmptyCell)
                               EXCEPT !.max = Num(1)]]
             IN  Dispatch(Request("query", cname,
                                  Concat(<<qobj2>>, a.orarr, hints2, h2),
                                  "0", {}, Fn("findOneCb"), a.cb), h2)

findOne(argc, cname, qobj, orarr, hints, cb, h) ==
    LET a == IF argc = 4
             THEN IF Truthy(orarr) /\ ConstructorIsArray(orarr)
                  THEN [cb |-> hints, orarr |-> orarr, hints |-> Obj("newHints")]
                  ELSE [cb |-> hints, orarr |-> Arr("newOrarr"), hints |-> orarr]
             ELSE IF argc = 3
                  THEN [cb |-> orarr, orarr |-> Arr("newOrarr"), hints |-> Obj("newHints")]
                  ELSE [cb |-> cb, orarr |-> orarr, hints |-> hints]
    IN  IF ~TypeofFunction(a.cb)
        THEN Throw("Callback 'cb' argument must be specified", h)
        ELSE IF ~TypeofString(cname)
        THEN Throw("Collection name 'cname' argument must be specified", h)
        ELSE LET hints2 == IF ~Truthy(a.hints) \/ ~TypeofObject(a.hints)
                           THEN Obj("newHints") ELSE a.hints
                 qobj2 == IF ~Truthy(qobj) \/ ~TypeofObject(qobj)
                          THEN Obj("newQobj") ELSE qobj
                 h2 == [h EXCEPT ![hints2.s].max = Num(1)]
             IN  Dispatch(Request("query", cname,
                                  Concat(<<qobj2>>, a.orarr, hints2, h2),
                                  "0", {}, Fn("findOneCb"), a.cb), h2)

\* findOne's callback without the try/finally: the close is skipped when the
\* handler throws.
findOneCb_NoFinally(cb, err, cursor, matched, throws) ==
    IF Truthy(err)
    THEN Invoke(cb, <<err>>, throws)
    ELSE IF matched
         THEN <<Ev("next", <<cursor, Bool(TRUE)>>), Ev("object", <<cursor>>)>>
              \o Invoke(cb, <<null, Obj("record")>>, throws)
              \o (IF throws THEN <<>> ELSE <<Ev("close", <<cursor>>)>>)
         ELSE <<Ev("next", <<cursor, Bool(FALSE)>>)>>
              \o Invoke(cb, <<null, null>>, throws)

\* findOne's callback closing the cursor on the no-match path too.
findOneCb_CloseAlways(cb, err, cursor, matched, throws) ==
    IF Truthy(err)
    THEN Invoke(cb, <<err>>, throws)
    ELSE IF matched
         THEN <<Ev("next", <<cursor, Bool(TRUE)>>), Ev("object", <<cursor>>)>>
              \o Invoke(cb, <<null, Obj("record")>>, throws)
              \o <<Ev("close", <<cursor>>)>>
         ELSE <<Ev("next", <<cursor, Bool(FALSE)>>)>>
              \o Invoke(cb, <<null, null>>, throws)
              \o <<Ev("close", <<cursor>>)>>

\* function(err, cursor) given to _impl.query by findOne; `matched` is what
\* cursor.next() returns.
findOneCb(cb, err, cursor, matched, throws) ==
    IF Truthy(err)
    THEN Invoke(cb, <<err>>, throws)
    ELSE IF matched
         THEN <<Ev("next", <<cursor, Bool(TRUE)>>), Ev("object", <<cursor>>)>>
              \o Invoke(cb, <<null, Obj("record")>>, throws)
              \o <<Ev("close", <<cursor>>)>>
         ELSE <<Ev("next", <<cursor, Bool(FALSE)>>)>>
              \o Invoke(cb, <<null, null>>, throws)

(* ------------------------------- update -------------------------------- *)

update(argc, cname, qobj, orarr, hints, cb, h) ==
    LET a == IF argc = 4
             THEN IF Truthy(orarr) /\ ConstructorIsArray(orarr)
                  THEN [cb |-> hints, orarr |-> orarr, hints |-> Obj("newHints")]
                  ELSE [cb |-> hints, orarr |-> Arr("newOrarr"), hints |-> orarr]
             ELSE IF argc = 3
                  THEN [cb |-> orarr, orarr |-> Arr("newOrarr"), hints |-> Obj("newHints")]
                  ELSE [cb |-> cb, orarr |-> orarr, hints |-> hints]
        cb2 == IF ~TypeofFunction(a.cb) THEN null ELSE a.cb
    IN  IF ~TypeofString(cname)
        THEN Throw("Collection name 'cname' argument must be specified", h)
        ELSE LET hints2 == IF ~Truthy(a.hints) \/ ~TypeofObject(a.hints)
                           THEN Obj("newHints") ELSE a.hints
                 qobj2 == IF ~Truthy(qobj) \/ ~TypeofObject(qobj)
                          THEN Obj("newQobj") ELSE qobj
             IN  Dispatch(Request("query", cname,
                                  Concat(<<qobj2>>, a.orarr, hints2, h),
                                  "JBQRYCOUNT", {}, Fn("updateCb"), cb2), h)

\* update's callback without the return after the error branch.
updateCb_NoReturn(cb, err, cursor, cnt, log, throws) ==
    IF Truthy(err)
    THEN LET first == Invoke(cb, <<err, null, log>>, throws)
         IN  IF first[Len(first)].k \in {"threw", "TypeError"} THEN first
             ELSE first \o Invoke(cb, <<null, cnt, log>>, throws)
    ELSE Invoke(cb, <<null, cnt, log>>, throws)

\* function(err, cursor, count, log) given to _impl.query by update.
updateCb(cb, err, cursor, cnt, log, throws) ==
    IF Truthy(err)
    THEN Invoke(cb, <<err, null, log>>, throws)
    ELSE Invoke(cb, <<null, cnt, log>>, throws)

(* -------------------------------- count -------------------------------- *)

\* count without the check of cname.
count_NoCnameCheck(argc, cname, qobj, orarr, hints, cb, h) ==
    LET a == IF argc = 4
             THEN IF Truthy(orarr) /\ ConstructorIsArray(orarr)
                  THEN [cb |-> hints, orarr |-> orarr, hints |-> Obj("newHints")]
                  ELSE [cb |-> hints, orarr |-> Arr("newOrarr"), hints |-> orarr]
             ELSE IF argc = 3
                  THEN [cb |-> orarr, orarr |-> Arr("newOrarr"), hints |-> Obj("newHints")]
                  ELSE [cb |-> cb, orarr |-> orarr, hints |-> hints]
    IN  IF ~TypeofFunction(a.cb)
        THEN Throw("Callback 'cb' argument must be specified", h)
        ELSE LET hints2 == IF ~Truthy(a.hints) \/ ~TypeofObject(a.hints)
                           THEN Obj("newHints") ELSE a.hints
                 qobj2 == IF ~Truthy(qobj) \/ ~TypeofObject(qobj)
                          THEN Obj("newQobj") ELSE qobj
             IN  Dispatch(Request("query", cname,
                                  Concat(<<qobj2>>, a.orarr, hints2, h),
                                  "JBQRYCOUNT", {}, Fn("countCb"), a.cb), h)

count(argc, cname, qobj, orarr, hints, cb, h) ==
    LET a == IF argc = 4
             THEN IF Truthy(orarr) /\ ConstructorIsArray(orarr)
                  THEN [cb |-> hints, orarr |-> orarr, hints |-> Obj("newHints")]
                  ELSE [cb |-> hints, orarr |-> Arr("newOrarr"), hints |-> orarr]
             ELSE IF argc = 3
                  THEN [cb |-> orarr, orarr |-> Arr("newOrarr"), hints |-> Obj("newHints")]
                  ELSE [cb |-> cb, orarr |-> orarr, hints |-> hints]
    IN  IF ~TypeofFunction(a.cb)
        THEN Throw("Callback 'cb' argument must be specified", h)
        ELSE IF ~TypeofString(cname)
        THEN Throw("Collection name 'cname' argument must be specified", h)
        ELSE LET hints2 == IF ~Truthy(a.hints) \/ ~TypeofObject(a.hints)
                           THEN Obj("newHints") ELSE a.hints
                 qobj2 == IF ~Truthy(qobj) \/ ~TypeofObject(qobj)
                          THEN Obj("newQobj") ELSE qobj
             IN  Dispatch(Request("query", cname,
                                  Concat(<<qobj2>>, a.orarr, hints2, h),
                                  "JBQRYCOUNT", {}, Fn("countCb"), a.cb), h)

\* count's callback calling the handler before it closes the cursor.
countCb_CloseAfter(cb, err, cursor, cnt, throws) ==
    IF Truthy(err)
    THEN Invoke(cb, <<err>>, throws)
    ELSE Invoke(cb, <<null, cnt>>, throws)
         \o (IF throws THEN <<>> ELSE <<Ev("close", <<cursor>>)>>)

\* function(err, cursor, count) given to _impl.query by count.
countCb(cb, err, cursor, cnt, throws) ==
    IF Truthy(err)
    THEN Invoke(cb, <<err>>, throws)
    ELSE <<Ev("close", <<cursor>>)>> \o Invoke(cb, <<null, cnt>>, throws)

(* -------------------------------- save --------------------------------- *)

save(cname, jsarr, opts, cb, h) ==
    IF ~Truthy(jsarr)
    THEN NoDispatch(h)
    ELSE LET wrap == ~ConstructorIsArray(jsarr)
             jsarr2 == IF wrap THEN Arr("newJsarr") ELSE jsarr
             h2 == IF wrap THEN [h EXCEPT !["newJsarr"].elems = <<jsarr>>] ELSE h
             a == IF TypeofFunction(opts)
                  THEN [cb |-> opts, opts |-> null]
                  ELSE [cb |-> cb, opts |-> opts]
             opts2 == IF Truthy(a.opts) THEN a.opts ELSE Obj("newOpts")
         IN  Dispatch(Request("save", cname, <<jsarr2, opts2>>, "", {},
                              Fn("saveCb"), a.cb), h2)

\* x[i] of a JavaScript array: undefined beyond its length.
At(elems, i) == IF i \in 1..Len(elems) THEN elems[i] ELSE undefined

\* so != null
NotNullish(v) == v.t \notin {"undefined", "null"}

\* The loop assigning only to documents that had no _id.
RECURSIVE AssignIds_NewOnly(_, _, _, _)
AssignIds_NewOnly(jsarr, oids, i, st) ==
    IF i < 1 THEN st
    ELSE LET so == jsarr[i]
             oid == At(oids, i)
         IN  IF NotNullish(so) /\ st.h[so.s].id = undefined
             THEN AssignIds_NewOnly(jsarr, oids, i - 1,
                            [h |-> [st.h EXCEPT ![so.s].id = oid],
                             ev |-> st.ev \o <<Ev("set", <<so, oid>>)>>])
             ELSE AssignIds_NewOnly(jsarr, oids, i - 1, st)

\* The loop of the save callback, from index i down to 1: the heap it
\* leaves and the assignments it made, in order.
RECURSIVE AssignIds(_, _, _, _)
AssignIds(jsarr, oids, i, st) ==
    IF i < 1 THEN st
    ELSE LET so == jsarr[i]
             oid == At(oids, i)
         IN  IF NotNullish(so) /\ st.h[so.s].id # oid
             THEN AssignIds(jsarr, oids, i - 1,
                            [h |-> [st.h EXCEPT ![so.s].id = oid],
                             ev |-> st.ev \o <<Ev("set", <<so, oid>>)>>])
             ELSE AssignIds(jsarr, oids, i - 1, st)

\* save's callback dropping the engine's error instead of passing it on.
saveCb_SwallowError(cb, jsarr, err, oids, throws, h) ==
    IF Truthy(err)
    THEN [h |-> h, ev |-> <<>>]
    ELSE LET st == AssignIds(h[jsarr.s].elems, h[oids.s].elems,
                             Len(h[jsarr.s].elems), [h |-> h, ev |-> <<>>])
         IN  [h |-> st.h,
              ev |-> st.ev \o (IF Truthy(cb) THEN Invoke(cb, <<err, oids>>, throws)
                               ELSE <<>>)]

\* function(err, oids) given to _impl.save by save; jsarr is the array the
\* closure captured.
saveCb(cb, jsarr, err, oids, throws, h) ==
    IF Truthy(err)
    THEN [h |-> h, ev |-> IF Truthy(cb) THEN Invoke(cb, <<err>>, throws) ELSE <<>>]
    ELSE LET st == AssignIds(h[jsarr.s].elems, h[oids.s].elems,
                             Len(h[jsarr.s].elems), [h |-> h, ev |-> <<>>])
         IN  [h |-> st.h,
              ev |-> st.ev \o (IF Truthy(cb) THEN Invoke(cb, <<err, oids>>, throws)
                               ELSE <<>>)]

(* ------------------ operations that only forward --------------------- *)

removeCollection(argc, cname, prune, cb, h) ==
    LET a == IF argc = 2
             THEN [cb |-> prune, prune |-> Bool(FALSE)]
             ELSE [cb |-> cb, prune |-> prune]
        cb2 == IF ~Truthy(a.cb) THEN Fn("noop") ELSE a.cb
    IN  Dispatch(Request("removeCollection", cname, <<Bool(Truthy(a.prune))>>,
                         "", {}, cb2, cb2), h)

load(cname, oid, cb, h) ==
    Dispatch(Request("load", cname, <<oid>>, "", {}, cb, cb), h)

remove(cname, oid, cb, h) ==
    Dispatch(Request("remove", cname, <<oid>>, "", {}, cb, cb), h)

sync(cb, h) ==
    Dispatch(Request("sync", undefined, <<>>, "", {}, cb, cb), h)

\* The index operations: each is one call of _impl.setIndex with the flags
\* of its name OR-ed together.
IndexOps == {"dropIndexes", "optimizeIndexes",
             "ensureStringIndex", "rebuildStringIndex", "dropStringIndex",
             "ensureIStringIndex", "rebuildIStringIndex", "dropIStringIndex",
             "ensureNumberIndex", "rebuildNumberIndex", "dropNumberIndex",
             "ensureArrayIndex", "rebuildArrayIndex", "dropArrayIndex"}

IndexFlags(op) ==
    CASE op = "dropIndexes" -> {"JBIDXDROPALL"}
      [] op = "optimizeIndexes" -> {"JBIDXOP"}
      [] op = "ensureStringIndex" -> {"JBIDXSTR"}
      [] op = "rebuildStringIndex" -> {"JBIDXSTR", "JBIDXREBLD"}
      [] op = "dropStringIndex" -> {"JBIDXSTR", "JBIDXDROP"}
      [] op = "ensureIStringIndex" -> {"JBIDXISTR"}
      [] op = "rebuildIStringIndex" -> {"JBIDXISTR", "JBIDXREBLD"}
      [] op = "dropIStringIndex" -> {"JBIDXISTR", "JBIDXDROP"}
      [] op = "ensureNumberIndex" -> {"JBIDXNUM"}
      [] op = "rebuildNumberIndex" -> {"JBIDXNUM", "JBIDXREBLD"}
      [] op = "dropNumberIndex" -> {"JBIDXNUM", "JBIDXDROP"}
      [] op = "ensureArrayIndex" -> {"JBIDXARR"}
      [] op = "rebuildArrayIndex" -> {"JBIDXARR", "JBIDXREBLD"}
      [] op = "dropArrayIndex" -> {"JBIDXARR", "JBIDXDROP"}

setIndexOp(op, cname, path, cb, h) ==
    Dispatch(Request("setIndex", cname, <<path>>, "", IndexFlags(op), cb, cb), h)

(* ------------------------------ actions -------------------------------- *)

NoCall == [op |-> "", argc |-> 0, args |-> <<>>]

CallRec(op, argc, args) == [op |-> op, argc |-> argc, args |-> args]

\* Values a caller passes in the five positions of a query call.
CnameVals == {Str("c"), undefined}
QobjVals == {Obj("P"), null}
Arg3Vals == {undefined, null, Handler, Obj("H1"), Arr("A0"), Arr("A1")}
Arg4Vals == {undefined, Handler, Obj("H0"), Obj("H1"), Arr("A0")}
Arg5Vals == {undefined, Handler}

\* The actual arguments of a call with argc arguments: the parameters
\* beyond arguments.length are undefined.
QueryArgs(argc) ==
    {<<c, q, a3, a4, a5>> : c \in CnameVals, q \in QobjVals,
        a3 \in IF argc >= 3 THEN Arg3Vals ELSE {undefined},
        a4 \in IF argc >= 4 THEN Arg4Vals ELSE {undefined},
        a5 \in IF argc >= 5 THEN Arg5Vals ELSE {undefined}}

\* The caller's call returns: by an exception or after the dispatch.
Enter(op, argc, args, out) ==
    /\ pc = "idle"
    /\ call' = CallRec(op, argc, args)
    /\ heap0' = Fresh(heap)
    /\ heap' = out.h
    /\ sent' = out.sent
    /\ answer' = <<>>
    /\ events' = IF out.throw # "" THEN <<[k |-> "throw", a |-> <<Str(out.throw)>>]>>
                 ELSE <<>>
    /\ pc' = IF out.sent # <<>> THEN "pending" ELSE "done"

findCall ==
    \E argc \in 2..MaxArgc : \E a \in QueryArgs(argc) :
        Enter("find", argc, a, find(argc, a[1], a[2], a[3], a[4], a[5], Fresh(heap)))

findOneCall ==
    \E argc \in 2..MaxArgc : \E a \in QueryArgs(argc) :
        Enter("findOne", argc, a,
              findOne(argc, a[1], a[2], a[3], a[4], a[5], Fresh(heap)))

updateCall ==
    \E argc \in 2..MaxArgc : \E a \in QueryArgs(argc) :
        Enter("update", argc, a,
              update(argc, a[1], a[2], a[3], a[4], a[5], Fresh(heap)))

countCall ==
    \E argc \in 2..MaxArgc : \E a \in QueryArgs(argc) :
        Enter("count", argc, a,
              count(argc, a[1], a[2], a[3], a[4], a[5], Fresh(heap)))

\* Documents a caller submits: nothing, one object, or an array (one
\* document, two, the same object twice, a hole and a document).
JsarrVals == {null, Obj("D1"), Arr("J1"), Arr("J2"), Arr("J3"), Arr("J4")}

saveCall ==
    \E j \in JsarrVals, o \in {undefined, Handler, Obj("opts")},
       c \in {undefined, Handler} :
        Enter("save", 4, <<Str("c"), j, o, c>>,
              save(Str("c"), j, o, c, Fresh(heap)))

removeCollectionCall ==
    \E argc \in 1..3 :
    \E p \in IF argc >= 2 THEN {undefined, Bool(TRUE), Handler} ELSE {undefined},
       c \in IF argc >= 3 THEN {undefined, Handler} ELSE {undefined} :
        Enter("removeCollection", argc, <<Str("c"), p, c>>,
              removeCollection(argc, Str("c"), p, c, Fresh(heap)))

loadCall ==
    \E c \in {undefined, Handler} :
        Enter("load", 3, <<Str("c"), Oid(1), c>>,
              load(Str("c"), Oid(1), c, Fresh(heap)))

removeCall ==
    \E c \in {undefined, Handler} :
        Enter("remove", 3, <<Str("c"), Oid(1), c>>,
              remove(Str("c"), Oid(1), c, Fresh(heap)))

syncCall ==
    \E c \in {undefined, Handler} :
        Enter("sync", 1, <<c>>, sync(c, Fresh(heap)))

indexCall ==
    \E op \in IndexOps, c \in {undefined, Handler} :
        Enter(op, 3, <<Str("c"), Str("path"), c>>,
              setIndexOp(op, Str("c"), Str("path"), c, Fresh(heap)))

(* ------------------------------ the engine ----------------------------- *)

\* What the engine passes to the callback of a query: (error, cursor, count,
\* log), the log on both paths.
QueryAnswers ==
    {<<Err, null, null, l>> : l \in {undefined, Log}}
    \cup {<<null, Cursor, Num(n), l>> : n \in 0..MaxCount, l \in {undefined, Log}}

\* What the engine passes to the callback of its other functions.
Answers(fn) ==
    CASE fn = "query" -> QueryAnswers
      [] fn = "load" -> {<<Err>>, <<null, Obj("record")>>, <<null, null>>}
      [] OTHER -> {<<Err>>, <<null>>}

Answer(args, matched, throws) ==
    [args |-> args, matched |-> matched, throws |-> throws]

\* The engine finishes a request whose callback is the caller's own handler
\* (or removeCollection's empty function) and calls it.
EngineCallsHandler ==
    /\ pc = "pending"
    /\ sent[1].cb \in {Handler, Fn("noop")}
    /\ \E args \in Answers(sent[1].fn) :
          /\ answer' = <<Answer(args, FALSE, FALSE)>>
          /\ events' = events \o (IF sent[1].cb = Handler
                                  THEN Invoke(sent[1].cb, args, FALSE)
                                  ELSE <<>>)
    /\ pc' = "done"
    /\ UNCHANGED <<heap, heap0, call, sent>>

\* A request given no callback runs synchronously inside the engine call.
EngineSync ==
    /\ pc = "pending"
    /\ ~TypeofFunction(sent[1].cb)
    /\ pc' = "done"
    /\ UNCHANGED <<heap, heap0, call, sent, answer, events>>

\* The engine answers findOne's query.
findOneCallback ==
    /\ pc = "pending"
    /\ sent[1].cb = Fn("findOneCb")
    /\ \E args \in QueryAnswers, throws \in BOOLEAN :
       \E matched \in IF Truthy(args[1]) THEN {FALSE} ELSE BOOLEAN :
          /\ answer' = <<Answer(args, matched, throws)>>
          /\ events' = events \o findOneCb(sent[1].inner, args[1], args[2],
                                           matched, throws)
    /\ pc' = "done"
    /\ UNCHANGED <<heap, heap0, call, sent>>

\* The engine answers update's query.
updateCallback ==
    /\ pc = "pending"
    /\ sent[1].cb = Fn("updateCb")
    /\ \E args \in QueryAnswers, throws \in BOOLEAN :
          /\ answer' = <<Answer(args, FALSE, throws)>>
          /\ events' = events \o updateCb(sent[1].inner, args[1], args[2],
                                          args[3], args[4], throws)
    /\ pc' = "done"
    /\ UNCHANGED <<heap, heap0, call, sent>>

\* The engine answers count's query.
countCallback ==
    /\ pc = "pending"
    /\ sent[1].cb = Fn("countCb")
    /\ \E args \in QueryAnswers, throws \in BOOLEAN :
          /\ answer' = <<Answer(args, FALSE, throws)>>
          /\ events' = events \o countCb(sent[1].inner, args[1], args[2],
                                         args[3], throws)
    /\ pc' = "done"
    /\ UNCHANGED <<heap, heap0, call, sent>>

\* The identifier arrays the engine may return for n documents.
OidSeqs(n) == [1..n -> {Oid(i) : i \in 1..MaxOid}]

\* The engine answers save: an error, or one identifier per document in the
\* array "oids".
saveCallback ==
    /\ pc = "pending"
    /\ sent[1].cb = Fn("saveCb")
    /\ \E failed \in BOOLEAN, throws \in BOOLEAN :
       \E oids \in IF failed THEN {<<>>}
                   ELSE OidSeqs(Len(heap[sent[1].req[1].s].elems)) :
          LET args == IF failed THEN <<Err>> ELSE <<null, Arr("oids")>>
              h1 == [heap EXCEPT !["oids"].elems = oids]
              out == saveCb(sent[1].inner, sent[1].req[1], args[1],
                            At(args, 2), throws, h1)
          IN  /\ answer' = <<Answer(args, FALSE, throws)>>
              /\ heap' = out.h
              /\ events' = events \o out.ev
    /\ pc' = "done"
    /\ UNCHANGED <<heap0, call, sent>>

\* The caller goes on to its next call: what the last call allocated is
\* garbage, and the documents of the next save are built anew.
NextCallHeap(h) ==
    [a \in Addrs |-> IF a \in ScratchAddrs THEN EmptyCell
                     ELSE IF a \in DocAddrs THEN InitCell(a)
                     ELSE h[a]]

Return ==
    /\ pc = "done"
    /\ pc' = "idle"
    /\ heap' = NextCallHeap(heap)
    /\ heap0' = NextCallHeap(heap)
    /\ call' = NoCall
    /\ sent' = <<>>
    /\ answer' = <<>>
    /\ events' = <<>>

Init ==
    /\ heap = InitHeap
    /\ heap0 = InitHeap
    /\ pc = "idle"
    /\ call = NoCall
    /\ sent = <<>>
    /\ answer = <<>>
    /\ events = <<>>

Next ==
    \/ findCall
    \/ findOneCall
    \/ updateCall
    \/ countCall
    \/ saveCall
    \/ removeCollectionCall
    \/ loadCall
    \/ removeCall
    \/ syncCall
    \/ indexCall
    \/ EngineCallsHandler
    \/ EngineSync
    \/ findOneCallback
    \/ updateCallback
    \/ countCallback
    \/ saveCallback
    \/ Return

Spec == Init /\ [][Next]_vars

(* ------------------------- reading the trace --------------------------- *)

IsQueryOp == call.op \in {"find", "findOne", "update", "count"}

Dispatched == sent # <<>>

Answered == answer # <<>>

\* The engine reported success (a falsy error slot).
Succeeded == Answered /\ ~Truthy(answer[1].args[1])

\* The positions in the trace of the events of kind k.
At_(k) == {i \in DOMAIN events : events[i].k = k}

\* The heap-independent view of a value: a reference is seen as what it
\* holds, so that a fresh `{}` and a caller's `{}` are the same request.
View(v, h) == [v |-> IF IsRef(v) THEN V(v.t, "", 0) ELSE v,
               c |-> IF IsRef(v) THEN h[v.s] ELSE EmptyCell]

ReqView(req, h) == [i \in DOMAIN req |-> View(req[i], h)]

QueryFn(op, argc, a, h) ==
    CASE op = "find" -> find(argc, a[1], a[2], a[3], a[4], a[5], h)
      [] op = "findOne" -> findOne(argc, a[1], a[2], a[3], a[4], a[5], h)
      [] op = "update" -> update(argc, a[1], a[2], a[3], a[4], a[5], h)
      [] op = "count" -> count(argc, a[1], a[2], a[3], a[4], a[5], h)

\* The terminal handler the arity rules pick among the actual arguments.
ResolvedCb(c) ==
    IF c.argc = 4 THEN c.args[4] ELSE IF c.argc = 3 THEN c.args[3] ELSE c.args[5]

(* ------------------------------- claims -------------------------------- *)

\* The 5-argument call that expresses the same request as a 3-argument call
\* or as a 4-argument call whose 3rd argument is an array or an object; the
\* defaults are the literals `[]` and `{}`.
FiveArgForm(c) ==
    IF c.argc = 3
    THEN <<c.args[1], c.args[2], Arr("litArr"), Obj("litObj"), c.args[3]>>
    ELSE IF c.args[3].t = "array"
    THEN <<c.args[1], c.args[2], c.args[3], Obj("litObj"), c.args[4]>>
    ELSE <<c.args[1], c.args[2], Arr("litArr"), c.args[3], c.args[4]>>

\* C1: whenever find, findOne, update or count dispatched a request from a
\* 3-argument call, or from a 4-argument call whose 3rd argument is an array
\* A or a non-array object H, the list [predicate, ...orPredicates, hints] it
\* sent equals the list the 5-argument call with ([], {}), (A, {}) or ([], H)
\* sends from the same heap.
C1_ArityIndependent ==
    (/\ pc = "pending"
     /\ IsQueryOp
     /\ \/ call.argc = 3
        \/ call.argc = 4 /\ call.args[3].t \in {"array", "object"})
    => LET five == QueryFn(call.op, 5, FiveArgForm(call), heap0)
       IN  /\ five.sent # <<>>
           /\ ReqView(sent[1].req, heap) = ReqView(five.sent[1].req, five.h)

C1_Witness ==
    /\ pc = "pending"
    /\ call.op = "find"
    /\ call.argc = 4
    /\ call.args[3] = Arr("A1")
    /\ sent[1].req = <<Obj("P"), Obj("P"), Obj("newHints")>>

\* C2: when the engine answered findOne without error and the first next()
\* succeeded, the handler was entered exactly once, with (null, the object
\* read after that one next()), and the cursor was closed exactly once, after
\* the handler was entered, whether or not the handler threw.
C2_FindOneMatch ==
    (pc = "done" /\ call.op = "findOne" /\ Succeeded /\ answer[1].matched)
    => /\ Cardinality(At_("next")) = 1
       /\ Cardinality(At_("cb")) = 1
       /\ Cardinality(At_("close")) = 1
       /\ \A i \in At_("cb") :
             /\ events[i].a = <<null, Obj("record")>>
             /\ \A n \in At_("next") : n < i
             /\ \A o \in At_("object") : o < i
             /\ \A c \in At_("close") : c > i

C2_Witness ==
    /\ pc = "done"
    /\ call.op = "findOne"
    /\ Succeeded
    /\ answer[1].matched
    /\ answer[1].throws
    /\ At_("close") # {}

\* C3: when the engine answered findOne without error and the first next()
\* failed, the handler was entered with (null, null) and the layer made no
\* close call (nor any other call after next()) on the cursor.
C3_FindOneNoMatch ==
    (pc = "done" /\ call.op = "findOne" /\ Succeeded /\ ~answer[1].matched)
    => /\ Cardinality(At_("cb")) = 1
       /\ \A i \in At_("cb") : events[i].a = <<null, null>>
       /\ At_("close") = {}
       /\ At_("object") = {}

C3_Witness ==
    /\ pc = "done"
    /\ call.op = "findOne"
    /\ Succeeded
    /\ ~answer[1].matched
    /\ At_("cb") # {}

\* C4: after the engine answered a count call: on success the cursor was
\* closed before the handler was entered and the handler got exactly
\* (null, count); on failure the handler got exactly (error); the cursor is no
\* argument of any handler invocation.
C4_Count ==
    (pc = "done" /\ call.op = "count" /\ Answered)
    => /\ Cardinality(At_("cb")) = 1
       /\ \A i \in At_("cb") :
             /\ \A j \in DOMAIN events[i].a : events[i].a[j] # Cursor
             /\ IF Succeeded
                THEN /\ events[i].a = <<null, answer[1].args[3]>>
                     /\ \E c \in At_("close") : c < i
                ELSE events[i].a = <<answer[1].args[1]>>

C4_Witness ==
    /\ pc = "done"
    /\ call.op = "count"
    /\ Succeeded
    /\ events[1].k = "close"
    /\ At_("cb") # {}

\* C5: every cursor the engine handed over in answer to a findOne or count
\* query has been closed exactly once when the engine callback has finished.
C5_CursorClosedOnce ==
    (/\ pc = "done"
     /\ call.op \in {"findOne", "count"}
     /\ Answered
     /\ answer[1].args[2] = Cursor)
    => Cardinality(At_("close")) = 1

\* C6: an update call without a callable handler still dispatches its query,
\* and when the engine answers, no handler is invoked and no exception is
\* raised inside the engine callback.
C6_UpdateWithoutHandler ==
    (/\ call.op = "update"
     /\ TypeofString(call.args[1])
     /\ ~TypeofFunction(ResolvedCb(call)))
    => /\ Dispatched
       /\ (pc = "done" /\ Answered) => events = <<>>
\* The documents save handed to the engine and the identifiers it returned.
SaveDocs == heap[sent[1].req[1].s].elems

SaveOids == heap["oids"].elems

\* What save's callback did around the assignment: the handler (if any) was
\* entered after every assignment with (null, identifiers) on success; on an
\* error no document changed and the handler got only the error.
SaveProjection ==
    /\ sent[1].inner = Handler => Cardinality(At_("cb")) = 1
    /\ IF Succeeded
       THEN \A c \in At_("cb") :
               /\ events[c].a = <<null, Arr("oids")>>
               /\ \A w \in At_("set") : w < c
       ELSE /\ \A d \in DocAddrs : heap[d] = heap0[d]
            /\ At_("set") = {}
            /\ \A c \in At_("cb") : events[c].a = <<Err>>

\* C7 as stated: after save succeeded, every non-null document at index i
\* carries _id equal to the i-th returned identifier.
C7_EveryIndex ==
    (pc = "done" /\ call.op = "save" /\ Answered)
    => /\ SaveProjection
       /\ Succeeded =>
             \A i \in DOMAIN SaveDocs :
                NotNullish(SaveDocs[i]) => heap[SaveDocs[i].s].id = SaveOids[i]

\* C7 (amended): after save succeeded, every non-null document carries _id
\* equal to the identifier returned at the first index at which that object
\* was submitted; the assignments precede the handler's invocation with
\* (null, identifiers).  On an engine error no document changed and the
\* handler got only the error.
C7_SaveAssignsIds ==
    (pc = "done" /\ call.op = "save" /\ Answered)
    => /\ SaveProjection
       /\ Succeeded =>
             \A i \in DOMAIN SaveDocs :
                (/\ NotNullish(SaveDocs[i])
                 /\ \A j \in 1..(i - 1) : SaveDocs[j] # SaveDocs[i])
                => heap[SaveDocs[i].s].id = SaveOids[i]

C7_Witness ==
    /\ pc = "done"
    /\ call.op = "save"
    /\ Succeeded
    /\ sent[1].inner = Handler
    /\ SaveDocs = <<Obj("D1"), Obj("D2")>>
    /\ heap0["D1"].id = undefined
    /\ heap0["D2"].id = Oid(1)
    /\ heap["D1"].id = Oid(1)
    /\ heap["D2"].id = Oid(2)
    /\ Cardinality(At_("set")) = 2

\* C8: a find, findOne or count call whose resolved handler is no function,
\* and a find, findOne, update or count call whose cname is no string, threw
\* in the call itself, dispatched nothing to the engine, and no handler is
\* invoked for it.
C8_SynchronousThrow ==
    (/\ IsQueryOp
     /\ \/ call.op # "update" /\ ~TypeofFunction(ResolvedCb(call))
        \/ ~TypeofString(call.args[1]))
    => /\ pc = "done"
       /\ ~Dispatched
       /\ ~Answered
       /\ Len(events) = 1
       /\ events[1].k = "throw"

C8_Witness ==
    /\ call.op = "count"
    /\ call.argc = 3
    /\ call.args[3] = Handler
    /\ ~TypeofString(call.args[1])
    /\ events # <<>>
    /\ events[1].k = "throw"

\* C9: for a call that dispatched a request with the caller's handler, the
\* handler has not been invoked before the engine calls back, and has been
\* invoked exactly once when the engine callback has finished.
C9_HandlerExactlyOnce ==
    (Dispatched /\ sent[1].inner = Handler)
    => /\ pc = "pending" => At_("cb") = {}
       /\ (pc = "done" /\ Answered) => Cardinality(At_("cb")) = 1

C9_Witness ==
    /\ pc = "done"
    /\ call.op = "update"
    /\ Answered
    /\ ~Succeeded
    /\ sent[1].inner = Handler
    /\ Cardinality(At_("cb")) = 1

\* C10: when the engine reported a failure e to a call that has a handler,
\* the handler was invoked once with e as its first argument (for update
\* with (e, null, the engine's log)), and the request was dispatched once.
C10_ErrorPropagated ==
    (pc = "done" /\ Answered /\ ~Succeeded /\ sent[1].inner = Handler)
    => /\ Len(sent) = 1
       /\ Cardinality(At_("cb")) = 1
       /\ \A c \in At_("cb") :
             /\ events[c].a[1] = answer[1].args[1]
             /\ call.op = "update"
                => events[c].a = <<answer[1].args[1], null, answer[1].args[4]>>

C10_Witness ==
    /\ pc = "done"
    /\ call.op = "save"
    /\ Answered
    /\ ~Succeeded
    /\ sent[1].inner = Handler
    /\ events = <<Ev("cb", <<Err>>)>>
\* The orPredicates and hints arguments of a call of 3, 4 or 5 arguments:
\* with 4 arguments the 3rd is the orPredicates when it is an array and the
\* hints otherwise; an argument not given is undefined.
OrArg(c) ==
    IF c.argc = 3 THEN undefined
    ELSE IF c.argc = 4
    THEN (IF c.args[3].t = "array" THEN c.args[3] ELSE undefined)
    ELSE c.args[3]

HintsArg(c) ==
    IF c.argc = 3 THEN undefined
    ELSE IF c.argc = 4
    THEN (IF c.args[3].t = "array" THEN undefined ELSE c.args[3])
    ELSE c.args[4]

\* C11: every request find, findOne, update or count dispatched from a call
\* of 3, 4 or 5 arguments is [predicate, ...orPredicates, hints]: its first
\* element is a non-null object (an empty one when qobj is no object), its
\* last element is a non-null hints object (a new one when hints is no
\* object), and between them are exactly the elements of the orPredicates
\* array (none when orPredicates is no array).
C11_WellFormedRequest ==
    (pc = "pending" /\ IsQueryOp /\ call.argc \in 3..5)
    => LET req == sent[1].req
           n == Len(req)
           ors == IF OrArg(call).t = "array"
                  THEN heap0[OrArg(call).s].elems ELSE <<>>
       IN  /\ n = Len(ors) + 2
           /\ req[1].t = "object"
           /\ ~(Truthy(call.args[2]) /\ TypeofObject(call.args[2]))
              => req[1] = Obj("newQobj") /\ heap[req[1].s] = EmptyCell
           /\ req[n].t = "object"
           /\ ~(Truthy(HintsArg(call)) /\ TypeofObject(HintsArg(call)))
              => req[n] = Obj("newHints")
           /\ SubSeq(req, 2, n - 1) = ors
\* The hints after normalisation: the caller's when it is an object, a new
\* empty object otherwise.
NormalizedHints(c) ==
    IF Truthy(HintsArg(c)) /\ TypeofObject(HintsArg(c))
    THEN HintsArg(c) ELSE Obj("newHints")

\* C12: of every dispatched query, the mode flag is COUNT_ONLY for find
\* exactly when $onlycount of the normalized hints is truthy and 0 otherwise;
\* findOne sends 0 and, as the last element of the request, the hints with
\* $max = 1; update and count send COUNT_ONLY.
C12_ModeFlag ==
    (pc = "pending" /\ IsQueryOp)
    => LET nh == NormalizedHints(call)
           req == sent[1].req
       IN  CASE call.op = "find" ->
                  sent[1].mode = IF Truthy(heap0[nh.s].onlycount)
                                 THEN "JBQRYCOUNT" ELSE "0"
             [] call.op = "findOne" ->
                  /\ sent[1].mode = "0"
                  /\ req[Len(req)] = nh
                  /\ heap[nh.s].max = Num(1)
             [] OTHER -> sent[1].mode = "JBQRYCOUNT"
\* What the query methods did to the caller's objects: find, update and
\* count changed none of them; a findOne that dispatched wrote $max = 1 into
\* the very object the caller passed as hints (the request holds that object,
\* no copy) and changed nothing else.
HintsFrame ==
    (IsQueryOp /\ pc # "idle")
    => IF call.op = "findOne" /\ Dispatched /\ IsRef(HintsArg(call))
       THEN /\ heap[HintsArg(call).s] =
                  [heap0[HintsArg(call).s] EXCEPT !.max = Num(1)]
            /\ HintsArg(call).t = "object"
               => sent[1].req[Len(sent[1].req)] = HintsArg(call)
            /\ \A a \in CallerAddrs \ {HintsArg(call).s} : heap[a] = heap0[a]
       ELSE \A a \in CallerAddrs : heap[a] = heap0[a]

\* findOne(c, q, H1, cb) and find(c, q, H1, cb) have dispatched.
FindOneWithH1 ==
    /\ pc = "pending"
    /\ call.op = "findOne"
    /\ call.argc = 4
    /\ call.args[3] = Obj("H1")

FindWithH1 ==
    /\ pc = "pending"
    /\ call.op = "find"
    /\ call.argc = 4
    /\ call.args[3] = Obj("H1")

\* C13: find, update and count leave the caller's hints object unchanged and
\* findOne writes $max = 1 into the caller's hints object itself; and once
\* findOne(c, q, H, cb) has dispatched, the request of every later
\* find(c, q, H, cb) ends with H carrying $max = 1.
C13_HintsMutation ==
    /\ []HintsFrame
    /\ [](FindOneWithH1
          => [](FindWithH1
                => /\ sent[1].req[Len(sent[1].req)] = Obj("H1")
                   /\ heap["H1"].max = Num(1)))

C13_Witness ==
    /\ FindWithH1
    /\ heap0["H1"].max = Num(1)
    /\ sent[1].req = <<Obj("P"), Obj("H1")>>
    /\ heap["H1"] = Cell(Num(1), Bool(TRUE), undefined, <<>>)

====
